---- MODULE Spec2Model ----
(***************************************************************************)
(* Model of project-2/nbody-mpi.c: an MPI N-body simulation.  Every rank   *)
(* runs main(); the ranks only interact through MPI_Bcast and              *)
(* MPI_Allgather.  C floats are modelled as a scaled-down floating type:   *)
(* a finite value is an integer count of 1/Unit, magnitudes above FltMax   *)
(* overflow to +-inf, magnitudes below 1/Unit underflow to 0, and nan is   *)
(* produced by 0*inf, inf-inf and 0/0 as in IEEE arithmetic.               *)
(***************************************************************************)
EXTENDS Integers, Sequences, FiniteSets, TLC

(* ---------------------------- bounds ----------------------------------- *)
MaxWorkers == 2
MaxBodies == 4
MaxTime == 3
MaxSeed == 1

(* ------------------------ the float type ------------------------------- *)
Unit == 16
FltMax == 16384

F(n) == [t |-> "num", v |-> n]
PInf == [t |-> "inf", v |-> 1]
NInf == [t |-> "inf", v |-> -1]
NaN == [t |-> "nan", v |-> 0]
\* the content of memory returned by malloc and not yet written
Indet == [t |-> "indet", v |-> 0]

Abs(n) == IF n < 0 THEN -n ELSE n
Sgn(n) == IF n < 0 THEN -1 ELSE IF n > 0 THEN 1 ELSE 0
Inf(s) == IF s < 0 THEN NInf ELSE PInf
Round(n) == IF n > FltMax THEN PInf ELSE IF n < -FltMax THEN NInf ELSE F(n)

fneg(a) == IF a.t \in {"nan", "indet"} THEN a ELSE [t |-> a.t, v |-> -a.v]

fadd(a, b) ==
  IF a.t = "indet" \/ b.t = "indet" THEN Indet
  ELSE IF a.t = "nan" \/ b.t = "nan" THEN NaN
  ELSE IF a.t = "inf" /\ b.t = "inf" THEN (IF a.v = b.v THEN a ELSE NaN)
  ELSE IF a.t = "inf" THEN a
  ELSE IF b.t = "inf" THEN b
  ELSE Round(a.v + b.v)

fsub(a, b) == fadd(a, fneg(b))

fmul(a, b) ==
  IF a.t = "indet" \/ b.t = "indet" THEN Indet
  ELSE IF a.t = "nan" \/ b.t = "nan" THEN NaN
  ELSE IF a.t = "inf" \/ b.t = "inf"
       THEN (IF a.v = 0 \/ b.v = 0 THEN NaN ELSE Inf(Sgn(a.v) * Sgn(b.v)))
  ELSE Round(Sgn(a.v) * Sgn(b.v) * ((Abs(a.v) * Abs(b.v)) \div Unit))

fdiv(a, b) ==
  IF a.t = "indet" \/ b.t = "indet" THEN Indet
  ELSE IF a.t = "nan" \/ b.t = "nan" THEN NaN
  ELSE IF a.t = "inf" THEN (IF b.t = "inf" THEN NaN
                            ELSE Inf(a.v * (IF b.v < 0 THEN -1 ELSE 1)))
  ELSE IF b.t = "inf" THEN F(0)
  ELSE IF b.v = 0 THEN (IF a.v = 0 THEN NaN ELSE Inf(a.v))
  ELSE Round(Sgn(a.v) * Sgn(b.v) * ((Abs(a.v) * Unit) \div Abs(b.v)))

\* the integer square root, by bisection: lo * lo <= n < hi * hi
RECURSIVE ISqrtBetween(_, _, _)
ISqrtBetween(n, lo, hi) ==
  IF hi - lo <= 1 THEN lo
  ELSE LET mid == (lo + hi) \div 2
       IN  IF mid * mid <= n THEN ISqrtBetween(n, mid, hi)
           ELSE ISqrtBetween(n, lo, mid)
ISqrt(n) == ISqrtBetween(n, 0, 1024)

sqrtf(a) ==
  IF a.t \in {"nan", "indet"} THEN a
  ELSE IF a.v < 0 THEN NaN
  ELSE IF a.t = "inf" THEN PInf
  ELSE F(ISqrt(a.v * Unit))

\* conversion of a non-negative finite float to size_t: truncation
Trunc(a) == a.v \div Unit

Half == F(Unit \div 2)
One == F(Unit)
Zero == F(0)

(* ----------------------------- body_t ---------------------------------- *)
body_t(x, y, ax, ay, vx, vy, mass) ==
  [x |-> x, y |-> y, ax |-> ax, ay |-> ay, vx |-> vx, vy |-> vy, mass |-> mass]

IndetBody == body_t(Indet, Indet, Indet, Indet, Indet, Indet, Indet)

\* malloc(sizeof(T) * n): n entries of indeterminate content, indexed from 0
malloc(n, v) == [idx \in 0..(n - 1) |-> v]

(* ---------------------- rand() and unit_random() ----------------------- *)
\* rand() is a congruential generator; the ranks never call srand()
RandModulus == 8
RAND_MAX == 1
RandNext(s) == (5 * s + 3) % RandModulus
RECURSIVE RandState(_, _)
RandState(s, n) == IF n = 0 THEN s ELSE RandState(RandNext(s), n - 1)
\* the value of the n-th call of rand() (n >= 1) from state s
rand(s, n) == RandState(s, n) \div (RandModulus \div (RAND_MAX + 1))
unit_random(s, n) == fdiv(F(rand(s, n) * Unit), F(RAND_MAX * Unit))

(* ------------------------- cosf() and sinf() --------------------------- *)
TwoPi == 100
\* piecewise linear approximation of the cosine on the 1/Unit grid
cosf(a) ==
  LET m == a.v % TwoPi
      h == TwoPi \div 2
  IN  IF m <= h THEN F(Unit - (m * 2 * Unit) \div h)
      ELSE F(((m - h) * 2 * Unit) \div h - Unit)
sinf(a) == cosf(F(a.v - TwoPi \div 4))

(* ------------------------- generate_debug_data ------------------------- *)
\* body i consumes calls 5i+1 .. 5i+5 of rand(), in the order of the code
generate_body(s, idx, body_count, initial_body_mass, scale) ==
  LET angle  == fadd(fmul(fdiv(F(idx * Unit), F(body_count * Unit)), F(TwoPi)),
                     fmul(fsub(unit_random(s, 5 * idx + 1), Half), Half))
      x      == unit_random(s, 5 * idx + 2)
      y      == unit_random(s, 5 * idx + 3)
      mass   == fmul(initial_body_mass, fadd(unit_random(s, 5 * idx + 4), Half))
      random == unit_random(s, 5 * idx + 5)
  IN  body_t(x, y, Zero, Zero,
             fmul(fmul(cosf(angle), scale), random),
             fmul(fmul(sinf(angle), scale), random),
             mass)

generate_debug_data(s, body_count, initial_body_mass, scale) ==
  [idx \in 0..(body_count - 1) |->
      generate_body(s, idx, body_count, initial_body_mass, scale)]

(* ---------------- calculate_newton_gravity_acceleration ---------------- *)
calculate_newton_gravity_acceleration(first_body, second_body, soft2) ==
  LET galactic_plane_r_x == fsub(second_body.x, first_body.x)
      galactic_plane_r_y == fsub(second_body.y, first_body.y)
      distance_squared ==
        fadd(fadd(fmul(galactic_plane_r_x, galactic_plane_r_x),
                  fmul(galactic_plane_r_y, galactic_plane_r_y)), soft2)
      distance_squared_cubed ==
        fmul(fmul(distance_squared, distance_squared), distance_squared)
      inverse == fdiv(One, sqrtf(distance_squared_cubed))
      scale == fmul(second_body.mass, inverse)
  IN  <<fadd(Zero, fmul(galactic_plane_r_x, scale)),
        fadd(Zero, fmul(galactic_plane_r_y, scale))>>

(* ------------------------------ integrate ------------------------------ *)
\* a variant that advances the position with the velocity before the update
integrate_OldVelocity(body, delta_time) ==
  LET vx == fadd(body.vx, fmul(body.ax, delta_time))
      vy == fadd(body.vy, fmul(body.ay, delta_time))
  IN  [body EXCEPT !.vx = vx, !.vy = vy,
                   !.x = fadd(body.x, fmul(body.vx, delta_time)),
                   !.y = fadd(body.y, fmul(body.vy, delta_time))]

integrate(body, delta_time) ==
  LET vx == fadd(body.vx, fmul(body.ax, delta_time))
      vy == fadd(body.vy, fmul(body.ay, delta_time))
  IN  [body EXCEPT !.vx = vx, !.vy = vy,
                   !.x = fadd(body.x, fmul(vx, delta_time)),
                   !.y = fadd(body.y, fmul(vy, delta_time))]

(* ------------------- the pairwise loop of one body --------------------- *)
\* a variant of the j loop without the test first_body == second_body
RECURSIVE total_acceleration_WithSelf(_, _, _, _, _, _)
total_acceleration_WithSelf(store, idx, j, body_count, soft2, total) ==
  IF j >= body_count THEN total
  ELSE LET a == calculate_newton_gravity_acceleration(
                   store[idx], store[j], soft2)
       IN  total_acceleration_WithSelf(store, idx, j + 1, body_count, soft2,
                                       <<fadd(total[1], a[1]), fadd(total[2], a[2])>>)

\* the j loop of main: j = 0 .. body_count-1 in order, skipping j = i
RECURSIVE total_acceleration(_, _, _, _, _, _)
total_acceleration(store, idx, j, body_count, soft2, total) ==
  IF j >= body_count THEN total
  ELSE IF j = idx
       THEN total_acceleration(store, idx, j + 1, body_count, soft2, total)
       ELSE LET a == calculate_newton_gravity_acceleration(
                        store[idx], store[j], soft2)
            IN  total_acceleration(store, idx, j + 1, body_count, soft2,
                                   <<fadd(total[1], a[1]), fadd(total[2], a[2])>>)

\* a variant whose write of the acceleration also clears the mass
with_acceleration_ClearsMass(store, idx, body_count, soft2) ==
  LET total == total_acceleration(store, idx, 0, body_count, soft2, <<Zero, Zero>>)
  IN  [store[idx] EXCEPT !.ax = total[1], !.ay = total[2], !.mass = Zero]

\* a variant that integrates the body where it stands in the store
with_acceleration_InPlace(store, idx, body_count, soft2) ==
  LET total == total_acceleration(store, idx, 0, body_count, soft2, <<Zero, Zero>>)
  IN  integrate([store[idx] EXCEPT !.ax = total[1], !.ay = total[2]],
                F(3 * (Unit \div 4)))

\* first_body->ax = total_ax; first_body->ay = total_ay
with_acceleration(store, idx, body_count, soft2) ==
  LET total == total_acceleration(store, idx, 0, body_count, soft2, <<Zero, Zero>>)
  IN  [store[idx] EXCEPT !.ax = total[1], !.ay = total[2]]

(* ------------------------------- state --------------------------------- *)
VARIABLES
  argc,               \* number of command line words, program name included
  argv,               \* the parsed command line arguments
  w_size,             \* MPI_Comm_size
  seed,               \* state of rand() when main starts
  pc,                 \* position of every rank in main
  exit_status,
  bodies,             \* every rank's global store
  local_bodies,       \* every rank's slice buffer
  accelerations,      \* every rank's trace buffer
  ptrs,               \* the global pointers of a rank that are not NULL
  heap,               \* the blocks of a rank that are allocated and not freed
  bodies_per_process,
  slice_start,
  k,
  i,
  next_acceleration,
  bcast_msg,          \* MPI_Bcast: what the root has sent
  sent,               \* MPI_Allgather: the slices each rank has contributed
  stdout_buf,         \* printed and still in the stdio buffer
  output              \* written to the output channel

vars == <<argc, argv, w_size, seed, pc, exit_status, bodies, local_bodies,
          accelerations, ptrs, heap, bodies_per_process, slice_start, k, i,
          next_acceleration, bcast_msg, sent, stdout_buf, output>>

Ranks == 0..(w_size - 1)

EXIT_SUCCESS == 0
EXIT_FAILURE == 1
Default_Debug_Acceleration_Scale == F(100 * Unit)

(* ----------------------- the locals of main ---------------------------- *)
time_period == argv.time_period
delta_time == argv.delta_time
body_count == argv.body_count
initial_body_mass == argv.initial_body_mass
simulation_softening_length_squared ==
  fmul(argv.softening_length, argv.softening_length)
debug_acceleration_scale ==
  IF argc > 6 THEN argv.debug_acceleration_scale
  ELSE Default_Debug_Acceleration_Scale
iterations == Trunc(fdiv(time_period, delta_time))
acceleration_entries == iterations * body_count * 2

(* ------------------------------- Init ---------------------------------- *)
TimePeriods == {F(t * (Unit \div 2)) : t \in 1..MaxTime}
ThreeQuarters == F(3 * (Unit \div 4))

Init ==
  /\ argc \in {5, 6, 7}
  /\ w_size \in 1..MaxWorkers
  /\ seed \in 0..MaxSeed
  /\ argv \in [time_period : TimePeriods,
               delta_time : {ThreeQuarters},
               body_count : 1..MaxBodies,
               initial_body_mass : {One},
               softening_length : {Zero, One},
               debug_acceleration_scale : {One}]
  /\ pc = [r \in Ranks |-> "start"]
  /\ exit_status = [r \in Ranks |-> EXIT_SUCCESS]
  /\ bodies = [r \in Ranks |-> <<>>]
  /\ local_bodies = [r \in Ranks |-> <<>>]
  /\ accelerations = [r \in Ranks |-> <<>>]
  /\ ptrs = [r \in Ranks |-> {}]
  /\ heap = [r \in Ranks |-> {}]
  /\ bodies_per_process = [r \in Ranks |-> 0]
  /\ slice_start = [r \in Ranks |-> 0]
  /\ k = [r \in Ranks |-> 0]
  /\ i = [r \in Ranks |-> 0]
  /\ next_acceleration = [r \in Ranks |-> 0]
  /\ bcast_msg = <<>>
  /\ sent = [r \in Ranks |-> <<>>]
  /\ stdout_buf = [r \in Ranks |-> <<>>]
  /\ output = [r \in Ranks |-> <<>>]

(* --------------------------- helpers of main --------------------------- *)
\* printf of the header and of the initial state, lines 216-229
initial_dump(store) ==
  <<<<"header", body_count, time_period, delta_time>>>> \o
  [n \in 1..body_count |-> <<"body", store[n - 1]>>]

\* a variant that prints the pairs of one step only
trace_lines_OneStep(acc) ==
  [n \in 1..(IF acceleration_entries = 0 THEN 0 ELSE body_count) |->
      <<"acc", acc[2 * (n - 1)], acc[2 * (n - 1) + 1]>>]

\* printf of the trace, lines 313-315
trace_lines(acc) ==
  [n \in 1..(acceleration_entries \div 2) |->
      <<"acc", acc[2 * (n - 1)], acc[2 * (n - 1) + 1]>>]

\* the assertion of line 232
divisible == body_count % w_size = 0

\* line 234
slice_length(count, size) == count \div size

\* variants: every rank starts at 0; the rank is not scaled by the length
slice_begin_Zero(rank, per_process) == 0
slice_begin_Rank(rank, per_process) == rank

\* line 248
slice_begin(rank, per_process) == rank * per_process

\* a variant that lays the blocks of the receive buffer out from the last
\* rank to the first
owner_Reversed(r, idx) == (w_size - 1) - idx \div bodies_per_process[r]

\* the owner of entry idx of the receive buffer of MPI_Allgather
owner(r, idx) == idx \div bodies_per_process[r]

\* a variant that waits for no other rank
allgather_ready_Self(r) == Len(sent[r]) >= k[r] + 1

\* MPI_Allgather has everything it needs to return on rank r
allgather_ready(r) == \A q \in Ranks : Len(sent[q]) >= k[r] + 1

\* a variant that takes the slices of the exchange before this one
received_PreviousExchange(r, idx) ==
  LET q == owner(r, idx)
      n == IF k[r] >= 1 THEN k[r] ELSE 1
  IN  IF q \in Ranks /\ Len(sent[q]) >= n
      THEN sent[q][n][idx % bodies_per_process[r]]
      ELSE bodies[r][idx]

\* entry idx of the receive buffer once MPI_Allgather returns on rank r: block
\* q of the buffer is the slice rank q contributed to this exchange; a slice
\* that has not arrived leaves the buffer as it is
received(r, idx) ==
  LET q == owner(r, idx)
  IN  IF q \in Ranks /\ Len(sent[q]) >= k[r] + 1
      THEN sent[q][k[r] + 1][idx % bodies_per_process[r]]
      ELSE bodies[r][idx]

\* a variant that writes every step at the start of the buffer
record_FromStart(acc, next, store) ==
  [n \in DOMAIN acc |->
     IF n < 2 * body_count
     THEN (IF n % 2 = 0 THEN store[n \div 2].ax ELSE store[n \div 2].ay)
     ELSE acc[n]]

\* lines 300-306: the leader appends every body's (ax, ay) at the cursor
record(acc, next, store) ==
  [n \in DOMAIN acc |->
     IF n >= next /\ n < next + 2 * body_count
     THEN (IF (n - next) % 2 = 0 THEN store[(n - next) \div 2].ax
           ELSE store[(n - next) \div 2].ay)
     ELSE acc[n]]

\* the value of a global pointer of rank r
pointer(r, name) == IF name \in ptrs[r] THEN name ELSE "NULL"

\* free(p): the blocks still allocated; free(NULL) does nothing
free(p, blocks) == IF p = "NULL" THEN blocks ELSE blocks \ {p}

\* if(!p) { free(p); p = NULL; } of lines 321-331: the blocks still allocated
release(r, name, blocks) ==
  IF pointer(r, name) = "NULL" THEN free(pointer(r, name), blocks) ELSE blocks

\* a variant that leaves the exit status as it was initialised
Usage_StatusKept(r) ==
  /\ pc[r] = "start"
  /\ argc < 6
  /\ pc' = [pc EXCEPT ![r] = "end"]
  /\ UNCHANGED <<argc, argv, w_size, seed, exit_status, bodies, local_bodies,
                 accelerations, ptrs, heap, bodies_per_process, slice_start, k,
                 i, next_acceleration, bcast_msg, sent, stdout_buf, output>>

(* ------------------------------ actions -------------------------------- *)
\* lines 180-195: too few arguments
Usage(r) ==
  /\ pc[r] = "start"
  /\ argc < 6
  /\ exit_status' = [exit_status EXCEPT ![r] = EXIT_FAILURE]
  /\ pc' = [pc EXCEPT ![r] = "end"]
  /\ UNCHANGED <<argc, argv, w_size, seed, bodies, local_bodies, accelerations,
                 ptrs, heap, bodies_per_process, slice_start, k, i,
                 next_acceleration, bcast_msg, sent, stdout_buf, output>>

\* lines 197-230: parse, allocate the store, generate and dump on rank 0
Setup(r) ==
  /\ pc[r] = "start"
  /\ ~(argc < 6)
  /\ ptrs' = [ptrs EXCEPT ![r] = @ \cup {"bodies"}]
  /\ heap' = [heap EXCEPT ![r] = @ \cup {"bodies"}]
  /\ IF r = 0
     THEN LET store == generate_debug_data(seed, body_count, initial_body_mass,
                                           debug_acceleration_scale)
          IN  /\ bodies' = [bodies EXCEPT ![r] = store]
              /\ stdout_buf' = [stdout_buf EXCEPT ![r] = @ \o initial_dump(store)]
     ELSE /\ bodies' = [bodies EXCEPT ![r] = malloc(body_count, IndetBody)]
          /\ UNCHANGED stdout_buf
  /\ pc' = [pc EXCEPT ![r] = "assert_div"]
  /\ UNCHANGED <<argc, argv, w_size, seed, exit_status, local_bodies,
                 accelerations, bodies_per_process, slice_start, k, i,
                 next_acceleration, bcast_msg, sent, output>>

\* line 232, the assertion fails: abort().  What is still in the stdio buffer
\* is lost; an abort() that flushes is Flush followed by this action
AssertFails(r) ==
  /\ pc[r] = "assert_div"
  /\ ~divisible
  /\ pc' = [pc EXCEPT ![r] = "aborted"]
  /\ stdout_buf' = [stdout_buf EXCEPT ![r] = <<>>]
  /\ UNCHANGED <<argc, argv, w_size, seed, exit_status, bodies, local_bodies,
                 accelerations, ptrs, heap, bodies_per_process, slice_start,
                 k, i, next_acceleration, bcast_msg, sent, output>>

\* a variant without the assertion of line 232
Allocate_Unchecked(r) ==
  /\ pc[r] = "assert_div"
  /\ bodies_per_process' = [bodies_per_process EXCEPT
                              ![r] = slice_length(body_count, w_size)]
  /\ local_bodies' = [local_bodies EXCEPT
                        ![r] = malloc(slice_length(body_count, w_size), IndetBody)]
  /\ accelerations' = [accelerations EXCEPT
                        ![r] = IF r = 0 THEN malloc(acceleration_entries, Indet)
                               ELSE @]
  /\ ptrs' = [ptrs EXCEPT ![r] = @ \cup {"local_bodies"} \cup
                                 (IF r = 0 THEN {"accelerations"} ELSE {})]
  /\ heap' = [heap EXCEPT ![r] = @ \cup {"local_bodies"} \cup
                                 (IF r = 0 THEN {"accelerations"} ELSE {})]
  /\ pc' = [pc EXCEPT ![r] = "bcast"]
  /\ UNCHANGED <<argc, argv, w_size, seed, exit_status, bodies, slice_start,
                 k, i, next_acceleration, bcast_msg, sent, stdout_buf, output>>

\* a variant in which every rank allocates a trace buffer
Allocate_TraceOnEveryRank(r) ==
  /\ pc[r] = "assert_div"
  /\ divisible
  /\ bodies_per_process' = [bodies_per_process EXCEPT
                              ![r] = slice_length(body_count, w_size)]
  /\ local_bodies' = [local_bodies EXCEPT
                        ![r] = malloc(slice_length(body_count, w_size), IndetBody)]
  /\ accelerations' = [accelerations EXCEPT
                        ![r] = malloc(acceleration_entries, Indet)]
  /\ ptrs' = [ptrs EXCEPT ![r] = @ \cup {"local_bodies", "accelerations"}]
  /\ heap' = [heap EXCEPT ![r] = @ \cup {"local_bodies", "accelerations"}]
  /\ pc' = [pc EXCEPT ![r] = "bcast"]
  /\ UNCHANGED <<argc, argv, w_size, seed, exit_status, bodies, slice_start,
                 k, i, next_acceleration, bcast_msg, sent, stdout_buf, output>>

\* lines 232-244: the assertion holds; slice buffer and trace buffer
Allocate(r) ==
  /\ pc[r] = "assert_div"
  /\ divisible
  /\ bodies_per_process' = [bodies_per_process EXCEPT
                              ![r] = slice_length(body_count, w_size)]
  /\ local_bodies' = [local_bodies EXCEPT
                        ![r] = malloc(slice_length(body_count, w_size), IndetBody)]
  /\ accelerations' = [accelerations EXCEPT
                        ![r] = IF r = 0 THEN malloc(acceleration_entries, Indet)
                               ELSE @]
  /\ ptrs' = [ptrs EXCEPT ![r] = @ \cup {"local_bodies"} \cup
                                 (IF r = 0 THEN {"accelerations"} ELSE {})]
  /\ heap' = [heap EXCEPT ![r] = @ \cup {"local_bodies"} \cup
                                 (IF r = 0 THEN {"accelerations"} ELSE {})]
  /\ pc' = [pc EXCEPT ![r] = "bcast"]
  /\ UNCHANGED <<argc, argv, w_size, seed, exit_status, bodies, slice_start,
                 k, i, next_acceleration, bcast_msg, sent, stdout_buf, output>>

\* lines 247-251 on the root: MPI_Bcast sends the store; slice_start; k = 0
BcastRoot(r) ==
  /\ pc[r] = "bcast"
  /\ r = 0
  /\ bcast_msg' = <<bodies[r]>>
  /\ slice_start' = [slice_start EXCEPT ![r] = slice_begin(r, bodies_per_process[r])]
  /\ k' = [k EXCEPT ![r] = 0]
  /\ next_acceleration' = [next_acceleration EXCEPT ![r] = 0]
  /\ pc' = [pc EXCEPT ![r] = "loop"]
  /\ UNCHANGED <<argc, argv, w_size, seed, exit_status, bodies, local_bodies,
                 accelerations, ptrs, heap, bodies_per_process, i, sent,
                 stdout_buf, output>>

\* a variant whose MPI_Bcast has a count of bodies_per_process
BcastRecv_SliceCount(r) ==
  /\ pc[r] = "bcast"
  /\ r # 0
  /\ bcast_msg # <<>>
  /\ bodies' = [bodies EXCEPT ![r] =
                  [idx \in DOMAIN bodies[r] |->
                     IF idx < bodies_per_process[r] THEN bcast_msg[1][idx]
                     ELSE bodies[r][idx]]]
  /\ slice_start' = [slice_start EXCEPT ![r] = r * bodies_per_process[r]]
  /\ k' = [k EXCEPT ![r] = 0]
  /\ next_acceleration' = [next_acceleration EXCEPT ![r] = 0]
  /\ pc' = [pc EXCEPT ![r] = "loop"]
  /\ UNCHANGED <<argc, argv, w_size, seed, exit_status, local_bodies,
                 accelerations, ptrs, heap, bodies_per_process, i, bcast_msg,
                 sent, stdout_buf, output>>

\* lines 247-251 on the other ranks: MPI_Bcast returns with the root's store
BcastRecv(r) ==
  /\ pc[r] = "bcast"
  /\ r # 0
  /\ bcast_msg # <<>>
  /\ bodies' = [bodies EXCEPT ![r] = bcast_msg[1]]
  /\ slice_start' = [slice_start EXCEPT ![r] = slice_begin(r, bodies_per_process[r])]
  /\ k' = [k EXCEPT ![r] = 0]
  /\ next_acceleration' = [next_acceleration EXCEPT ![r] = 0]
  /\ pc' = [pc EXCEPT ![r] = "loop"]
  /\ UNCHANGED <<argc, argv, w_size, seed, exit_status, local_bodies,
                 accelerations, ptrs, heap, bodies_per_process, i, bcast_msg,
                 sent, stdout_buf, output>>

\* line 251, k < iterations: lines 259-260, p = local_bodies, i = slice_start
LoopEnter(r) ==
  /\ pc[r] = "loop"
  /\ k[r] < iterations
  /\ i' = [i EXCEPT ![r] = IF bodies_per_process[r] > 0 THEN slice_start[r] ELSE 0]
  /\ pc' = [pc EXCEPT ![r] = IF bodies_per_process[r] > 0 THEN "force"
                             ELSE "allgather_enter"]
  /\ UNCHANGED <<argc, argv, w_size, seed, exit_status, bodies, local_bodies,
                 accelerations, ptrs, heap, bodies_per_process, slice_start, k,
                 next_acceleration, bcast_msg, sent, stdout_buf, output>>

\* line 251, k = iterations: the loop is left
LoopExit(r) ==
  /\ pc[r] = "loop"
  /\ ~(k[r] < iterations)
  /\ pc' = [pc EXCEPT ![r] = "emit"]
  /\ UNCHANGED <<argc, argv, w_size, seed, exit_status, bodies, local_bodies,
                 accelerations, ptrs, heap, bodies_per_process, slice_start, k,
                 i, next_acceleration, bcast_msg, sent, stdout_buf, output>>

\* lines 260-284, one owned body: sum, store the acceleration, *p++ = *first_body
Force(r) ==
  /\ pc[r] = "force"
  /\ LET first_body == with_acceleration(bodies[r], i[r], body_count,
                                         simulation_softening_length_squared)
         last == i[r] + 1 >= slice_start[r] + bodies_per_process[r]
     IN  /\ bodies' = [bodies EXCEPT ![r][i[r]] = first_body]
         /\ local_bodies' = [local_bodies EXCEPT
                               ![r][i[r] - slice_start[r]] = first_body]
         /\ i' = [i EXCEPT ![r] = IF last THEN 0 ELSE @ + 1]
         /\ pc' = [pc EXCEPT ![r] = IF last THEN "integrate" ELSE "force"]
  /\ UNCHANGED <<argc, argv, w_size, seed, exit_status, accelerations, ptrs,
                 heap, bodies_per_process, slice_start, k, next_acceleration,
                 bcast_msg, sent, stdout_buf, output>>

\* lines 287-291, one body of the slice buffer
Integrate(r) ==
  /\ pc[r] = "integrate"
  /\ LET last == i[r] + 1 >= bodies_per_process[r]
     IN  /\ local_bodies' = [local_bodies EXCEPT
                               ![r][i[r]] = integrate(@, delta_time)]
         /\ i' = [i EXCEPT ![r] = IF last THEN @ ELSE @ + 1]
         /\ pc' = [pc EXCEPT ![r] = IF last THEN "allgather_enter" ELSE "integrate"]
  /\ UNCHANGED <<argc, argv, w_size, seed, exit_status, bodies, accelerations,
                 ptrs, heap, bodies_per_process, slice_start, k,
                 next_acceleration, bcast_msg, sent, stdout_buf, output>>

\* a variant in which only the leader calls MPI_Allgather
AllgatherEnter_LeaderOnly(r) ==
  /\ pc[r] = "allgather_enter"
  /\ sent' = [sent EXCEPT ![r] = IF r = 0 THEN Append(@, local_bodies[r]) ELSE @]
  /\ pc' = [pc EXCEPT ![r] = IF r = 0 THEN "allgather" ELSE "record"]
  /\ UNCHANGED <<argc, argv, w_size, seed, exit_status, bodies, local_bodies,
                 accelerations, ptrs, heap, bodies_per_process, slice_start, k,
                 i, next_acceleration, bcast_msg, stdout_buf, output>>

\* line 294: the rank enters MPI_Allgather and contributes its slice buffer
AllgatherEnter(r) ==
  /\ pc[r] = "allgather_enter"
  /\ sent' = [sent EXCEPT ![r] = Append(@, local_bodies[r])]
  /\ pc' = [pc EXCEPT ![r] = "allgather"]
  /\ UNCHANGED <<argc, argv, w_size, seed, exit_status, bodies, local_bodies,
                 accelerations, ptrs, heap, bodies_per_process, slice_start, k,
                 i, next_acceleration, bcast_msg, stdout_buf, output>>

\* a variant that returns without waiting for the other ranks
AllgatherReturn_NoWait(r) ==
  /\ pc[r] = "allgather"
  /\ bodies' = [bodies EXCEPT ![r] =
                  [idx \in DOMAIN bodies[r] |->
                     IF idx < w_size * bodies_per_process[r]
                     THEN received(r, idx) ELSE bodies[r][idx]]]
  /\ pc' = [pc EXCEPT ![r] = "record"]
  /\ UNCHANGED <<argc, argv, w_size, seed, exit_status, local_bodies,
                 accelerations, ptrs, heap, bodies_per_process, slice_start, k,
                 i, next_acceleration, bcast_msg, sent, stdout_buf, output>>

\* line 294: MPI_Allgather returns once every rank's slice has arrived
AllgatherReturn(r) ==
  /\ pc[r] = "allgather"
  /\ allgather_ready(r)
  /\ bodies' = [bodies EXCEPT ![r] =
                  [idx \in DOMAIN bodies[r] |->
                     IF idx < w_size * bodies_per_process[r]
                     THEN received(r, idx) ELSE bodies[r][idx]]]
  /\ pc' = [pc EXCEPT ![r] = "record"]
  /\ UNCHANGED <<argc, argv, w_size, seed, exit_status, local_bodies,
                 accelerations, ptrs, heap, bodies_per_process, slice_start, k,
                 i, next_acceleration, bcast_msg, sent, stdout_buf, output>>

\* lines 298-308: the leader records the accelerations; ++k
Record(r) ==
  /\ pc[r] = "record"
  /\ IF r = 0
     THEN /\ accelerations' = [accelerations EXCEPT
                 ![r] = record(@, next_acceleration[r], bodies[r])]
          /\ next_acceleration' = [next_acceleration EXCEPT
                 ![r] = @ + 2 * body_count]
     ELSE UNCHANGED <<accelerations, next_acceleration>>
  /\ k' = [k EXCEPT ![r] = @ + 1]
  /\ pc' = [pc EXCEPT ![r] = "loop"]
  /\ UNCHANGED <<argc, argv, w_size, seed, exit_status, bodies, local_bodies,
                 ptrs, heap, bodies_per_process, slice_start, i, bcast_msg,
                 sent, stdout_buf, output>>

\* lines 311-316: the leader prints the trace
Emit(r) ==
  /\ pc[r] = "emit"
  /\ stdout_buf' = [stdout_buf EXCEPT
        ![r] = IF r = 0 THEN @ \o trace_lines(accelerations[r]) ELSE @]
  /\ pc' = [pc EXCEPT ![r] = "end"]
  /\ UNCHANGED <<argc, argv, w_size, seed, exit_status, bodies, local_bodies,
                 accelerations, ptrs, heap, bodies_per_process, slice_start, k,
                 i, next_acceleration, bcast_msg, sent, output>>

\* lines 318-333: MPI_Finalize, the two releases, return: exit flushes stdout
End(r) ==
  /\ pc[r] = "end"
  /\ heap' = [heap EXCEPT
        ![r] = release(r, "bodies", release(r, "accelerations", @))]
  /\ output' = [output EXCEPT ![r] = @ \o stdout_buf[r]]
  /\ stdout_buf' = [stdout_buf EXCEPT ![r] = <<>>]
  /\ pc' = [pc EXCEPT ![r] = "exited"]
  /\ UNCHANGED <<argc, argv, w_size, seed, exit_status, bodies, local_bodies,
                 accelerations, ptrs, bodies_per_process, slice_start, k, i,
                 next_acceleration, bcast_msg, sent>>

\* stdio writes the lines pending in the buffer of stdout (a line-buffered
\* terminal, or a full buffer); it may do so after any printf
Flush(r) ==
  /\ pc[r] \notin {"exited", "aborted"}
  /\ stdout_buf[r] # <<>>
  /\ output' = [output EXCEPT ![r] = @ \o stdout_buf[r]]
  /\ stdout_buf' = [stdout_buf EXCEPT ![r] = <<>>]
  /\ UNCHANGED <<argc, argv, w_size, seed, pc, exit_status, bodies,
                 local_bodies, accelerations, ptrs, heap, bodies_per_process,
                 slice_start, k, i, next_acceleration, bcast_msg, sent>>

Next ==
  \/ \E r \in Ranks : Usage(r)
  \/ \E r \in Ranks : Setup(r)
  \/ \E r \in Ranks : AssertFails(r)
  \/ \E r \in Ranks : Allocate(r)
  \/ \E r \in Ranks : BcastRoot(r)
  \/ \E r \in Ranks : BcastRecv(r)
  \/ \E r \in Ranks : LoopEnter(r)
  \/ \E r \in Ranks : LoopExit(r)
  \/ \E r \in Ranks : Force(r)
  \/ \E r \in Ranks : Integrate(r)
  \/ \E r \in Ranks : AllgatherEnter(r)
  \/ \E r \in Ranks : AllgatherReturn(r)
  \/ \E r \in Ranks : Record(r)
  \/ \E r \in Ranks : Emit(r)
  \/ \E r \in Ranks : End(r)
  \/ \E r \in Ranks : Flush(r)

Spec == Init /\ [][Next]_vars

\* the steps of main on rank r
RankNext(r) ==
  \/ Usage(r)
  \/ Setup(r)
  \/ AssertFails(r)
  \/ Allocate(r)
  \/ BcastRoot(r)
  \/ BcastRecv(r)
  \/ LoopEnter(r)
  \/ LoopExit(r)
  \/ Force(r)
  \/ Integrate(r)
  \/ AllgatherEnter(r)
  \/ AllgatherReturn(r)
  \/ Record(r)
  \/ Emit(r)
  \/ End(r)

\* rank r can take a step of main: it has not ended, and the collective it is
\* blocked in, if any, can return
CanStep(r) ==
  /\ pc[r] \notin {"exited", "aborted"}
  /\ (pc[r] = "bcast" /\ r # 0) => bcast_msg # <<>>
  /\ pc[r] = "allgather" => allgather_ready(r)

\* the positions of main
Positions ==
  {"start", "assert_div", "bcast", "loop", "force", "integrate",
   "allgather_enter", "allgather", "record", "emit", "end", "exited", "aborted"}

\* rank r takes a step of main: every step of RankNext(r), and no other step
\* of the program, moves the position or the loop index of rank r alone
RankStep(r) ==
  /\ r \in Ranks
  /\ CanStep(r)
  /\ \E p \in Positions, n \in 0..MaxBodies :
       /\ <<p, n>> # <<pc[r], i[r]>>
       /\ pc' = [pc EXCEPT ![r] = p]
       /\ i' = [i EXCEPT ![r] = n]

\* RankStep(r) and RankNext(r) are the same steps of the program
RankStepIsRankNext ==
  [][\A r \in Ranks : RankStep(r) <=> RankNext(r)]_vars

\* every rank is a process of its own that the system keeps running: a rank
\* that can take a step of main eventually takes one (a step of RankStep
\* always changes <<pc, i>>)
FairSpec ==
  Spec /\ \A r \in 0..(MaxWorkers - 1) : WF_<<pc, i>>(RankStep(r))

(* ===================== properties of the program ======================= *)
\* the store the leader generates
Generated ==
  generate_debug_data(seed, body_count, initial_body_mass, debug_acceleration_scale)

\* one step of the whole store: every body's acceleration is summed over the
\* store as it stands, then the body is integrated once
StepOf(store) ==
  [idx \in DOMAIN store |->
     integrate(with_acceleration(store, idx, body_count,
                                 simulation_softening_length_squared), delta_time)]

\* the function f on first..last, entry by entry
RECURSIVE Tabulate(_, _, _)
Tabulate(f, first, last) ==
  IF first >= last THEN (first :> f[first])
  ELSE (first :> f[first]) @@ Tabulate(f, first + 1, last)

\* the generated store advanced by n whole steps
RECURSIVE StoreAfter(_)
StoreAfter(n) ==
  IF n = 0 THEN Tabulate(Generated, 0, body_count - 1)
  ELSE Tabulate(StepOf(StoreAfter(n - 1)), 0, body_count - 1)

\* the rank has returned from MPI_Bcast
PastBcast(r) ==
  pc[r] \in {"loop", "force", "integrate", "allgather_enter", "allgather",
             "record", "emit", "end", "exited"} /\ argc >= 6

\* the number of collectives (the broadcast excluded) rank r has returned from
Exchanges(r) == IF pc[r] = "record" THEN k[r] + 1 ELSE k[r]

\* the store of rank r is as its last collective left it
Synced(r) == pc[r] \in {"loop", "record", "emit", "end", "exited"} /\ argc >= 6

\* the rank has just returned from a collective: from MPI_Allgather, or from
\* MPI_Bcast
JustReturned(r) == PastBcast(r) /\ (pc[r] = "record" \/ (pc[r] = "loop" /\ k[r] = 0))

\* the slice of rank r as the partitioner of the specification defines it
Owns(r, idx) ==
  /\ r * (body_count \div w_size) <= idx
  /\ idx < (r + 1) * (body_count \div w_size)

\* C1: two ranks that have returned from the same collective (the broadcast,
\* or the exchange ending the same step) hold stores that are equal in every
\* entry and every field.
C1_StoresIdentical ==
  \A r, q \in Ranks :
    (Synced(r) /\ Synced(q) /\ Exchanges(r) = Exchanges(q)) => bodies[r] = bodies[q]

\* two different ranks are back from the exchange of the second step, and
\* the stores they hold carry a computed acceleration
C1_Witness ==
  \E r, q \in Ranks :
    /\ r # q
    /\ pc[r] = "record" /\ pc[q] = "record"
    /\ k[r] = 1 /\ k[q] = 1
    /\ \E idx \in DOMAIN bodies[r] : bodies[r][idx].ax # Zero
    /\ bodies[r] # Generated

\* C2: the exchange is a barrier.  A rank that has returned from n exchanges
\* (and so any rank in the force computation of step n) finds that every
\* rank has contributed its slice to each of those n exchanges; a rank that
\* has not arrived keeps every other rank from getting past the exchange.
C2_Barrier ==
  \A r, q \in Ranks : PastBcast(r) => Exchanges(r) <= Len(sent[q])

\* one rank computes the forces of the second step while another rank, which
\* has contributed to the first exchange, has not yet returned from it
C2_Witness ==
  \E r, q \in Ranks :
    /\ pc[r] = "force" /\ k[r] = 1
    /\ pc[q] = "allgather" /\ k[q] = 0

\* C3: a rank that returns from the exchange of step n-1 (its n-th exchange)
\* holds, in every entry, the body its owner produced in that step: the
\* generated store advanced by exactly n whole steps, each step summing the
\* accelerations over the store of the step before and integrating once.
C3_ExactlyStepK ==
  \A n \in {Exchanges(r) : r \in {q \in Ranks : JustReturned(q)}} :
    LET expected == StoreAfter(n)
    IN  \A r \in Ranks : (JustReturned(r) /\ Exchanges(r) = n) => bodies[r] = expected

\* a rank back from the second exchange, whose store differs from the store
\* of the step before and from the store of the step after
C3_Witness ==
  \E r \in Ranks :
    /\ pc[r] = "record" /\ k[r] = 1 /\ w_size > 1
    /\ bodies[r] # StoreAfter(1)
    /\ bodies[r] # StoreAfter(3)

\* C4: in the step loop a rank changes an entry of its store outside its own
\* slice only by returning from the exchange, and the entry then holds the
\* body its owner contributed to that exchange.
C4_OwnSliceOnly ==
  [][\A r \in Ranks :
       (PastBcast(r) /\ pc[r] \notin {"emit", "end", "exited"}) =>
         \A idx \in DOMAIN bodies[r] :
           (~Owns(r, idx) /\ bodies'[r][idx] # bodies[r][idx]) =>
             /\ pc[r] = "allgather" /\ pc'[r] = "record"
             /\ \E q \in Ranks :
                  /\ Owns(q, idx)
                  /\ bodies'[r][idx] =
                       sent[q][k[r] + 1][idx - q * (body_count \div w_size)]]_vars

\* a rank about to enter the exchange has changed entries of its own slice
\* and no other: its store differs from the store of a rank that has not
\* started the step exactly inside its slice
C4_Witness ==
  \E r, q \in Ranks :
    /\ r # q
    /\ pc[r] = "allgather_enter" /\ pc[q] = "loop" /\ k[r] = k[q]
    /\ \E idx \in DOMAIN bodies[r] : Owns(r, idx) /\ bodies[r][idx] # bodies[q][idx]
    /\ \A idx \in DOMAIN bodies[r] : ~Owns(r, idx) => bodies[r][idx] = bodies[q][idx]

\* C5: once every rank has computed its slice, every index of
\* [0, body_count) lies in the slice of exactly one rank.
C5_Partition ==
  (\A r \in Ranks : PastBcast(r)) =>
    \A idx \in 0..(body_count - 1) :
      Cardinality({r \in Ranks : /\ slice_start[r] <= idx
                                 /\ idx < slice_start[r] + bodies_per_process[r]}) = 1

\* several ranks, each with a slice of several bodies
C5_Witness ==
  /\ \A r \in Ranks : PastBcast(r)
  /\ w_size > 1
  /\ \A r \in Ranks : bodies_per_process[r] > 1

\* C6: a run with a configuration error (too few arguments, or a body count
\* the number of ranks does not divide) ends with nothing written to the
\* output channel of any rank.
C6_NoPartialOutput ==
  (argc < 6 \/ body_count % w_size # 0) =>
    \A r \in Ranks : pc[r] \in {"aborted", "end", "exited"} => output[r] = <<>>

\* C7: when the number of ranks does not divide the body count, no rank gets
\* past the assertion: nothing is broadcast, no slice is contributed to an
\* exchange, no rank is in the step loop, and no rank returns from main.
C7_CheckedBeforeBroadcast ==
  body_count % w_size # 0 =>
    /\ bcast_msg = <<>>
    /\ \A r \in Ranks :
         /\ sent[r] = <<>>
         /\ pc[r] \in {"start", "assert_div", "aborted", "end", "exited"}
         /\ pc[r] \in {"end", "exited"} => argc < 6

\* several ranks, all of them aborted by the assertion
C7_Witness ==
  /\ argc >= 6
  /\ body_count % w_size # 0
  /\ w_size > 1
  /\ \A r \in Ranks : pc[r] = "aborted"

\* C8: a rank that has returned from main has freed the store it allocated.
C8_StoreFreed ==
  \A r \in Ranks :
    (pc[r] = "exited" /\ "bodies" \in ptrs[r]) => "bodies" \notin heap[r]

\* the body entry idx of the store held after the exchange of step n (from 0)
Exchanged(n, idx) ==
  sent[idx \div (body_count \div w_size)][n + 1][idx % (body_count \div w_size)]

\* C9: the cursor of the leader never passes the end of the trace buffer; it
\* stands at 2 * body_count * (steps recorded); and for every recorded step n
\* and body idx the pair at position n * body_count + idx is the (ax, ay) of
\* body idx as exchanged in step n.  After the loop the steps recorded are
\* the iterations, so the buffer holds iterations * body_count pairs.
C9_Trace ==
  PastBcast(0) =>
    /\ DOMAIN accelerations[0] = 0..(2 * iterations * body_count - 1)
    /\ next_acceleration[0] <= acceleration_entries
    /\ next_acceleration[0] = 2 * body_count * k[0]
    /\ pc[0] \in {"emit", "end", "exited"} => k[0] = iterations
    /\ \A n \in 0..(k[0] - 1) : \A idx \in 0..(body_count - 1) :
         /\ accelerations[0][2 * (n * body_count + idx)] = Exchanged(n, idx).ax
         /\ accelerations[0][2 * (n * body_count + idx) + 1] = Exchanged(n, idx).ay

\* the leader has returned from main after two steps of several bodies, and
\* the pairs of the two steps differ
C9_Witness ==
  /\ PastBcast(0) /\ pc[0] = "exited"
  /\ iterations = 2 /\ body_count > 1
  /\ accelerations[0][0] # accelerations[0][2 * body_count]
  /\ accelerations[0][3] # Zero

\* the trace of the sequential reference: step after step of the whole store
RECURSIVE TraceFrom(_, _)
TraceFrom(store, steps) ==
  IF steps = 0 THEN <<>>
  ELSE LET next == Tabulate(StepOf(store), 0, body_count - 1)
       IN  [n \in 1..(2 * body_count) |->
              IF n % 2 = 1 THEN next[(n - 1) \div 2].ax ELSE next[(n - 1) \div 2].ay]
           \o TraceFrom(next, steps - 1)

ExpectedTrace ==
  LET trace == TraceFrom(StoreAfter(0), iterations)
  IN  [n \in 0..(acceleration_entries - 1) |-> trace[n + 1]]

\* C10: the trace the leader holds after the loop is a function of the
\* inputs alone (the generated store and the parameters), whatever the
\* interleaving of the ranks has been.
C10_Deterministic ==
  (PastBcast(0) /\ pc[0] \in {"emit", "end", "exited"}) =>
    accelerations[0] = ExpectedTrace

\* the leader is done with a trace of two steps while another rank is still
\* in the loop
C10_Witness ==
  /\ PastBcast(0) /\ pc[0] = "end"
  /\ iterations = 2
  /\ \E q \in Ranks : pc[q] \in {"allgather", "record", "loop"}
  /\ \E n \in DOMAIN accelerations[0] : accelerations[0][n] # Zero

\* C11: with enough arguments and a body count the number of ranks divides,
\* and every rank scheduled fairly, the run terminates: every rank returns
\* from main, having gone through exactly `iterations` rounds of the step
\* loop and contributed to exactly `iterations` exchanges, after the one
\* broadcast.
C11_Terminates ==
  (argc >= 6 /\ body_count % w_size = 0) =>
    <>(/\ bcast_msg # <<>>
       /\ \A r \in Ranks :
            pc[r] = "exited" /\ k[r] = iterations /\ Len(sent[r]) = iterations)

\* several ranks have all returned from main after two rounds
C11_Witness ==
  /\ argc >= 6 /\ w_size > 1 /\ iterations = 2
  /\ \A r \in Ranks : pc[r] = "exited" /\ Len(sent[r]) = 2

\* a float that is a number above zero
Positive(a) == a.t = "num" /\ a.v > 0

\* the store of rank r has been allocated
StoreExists(r) == "bodies" \in heap[r]

\* the store of rank r holds the bodies: generated on the leader, received
\* by the broadcast on every other rank
HoldsBodies(r) == StoreExists(r) /\ (r = 0 \/ PastBcast(r))

MassesOf(generated) ==
  \A r \in Ranks :
    /\ HoldsBodies(r) =>
         \A idx \in DOMAIN bodies[r] :
           /\ bodies[r][idx].mass = generated[idx].mass
           /\ Positive(fmul(initial_body_mass, Half)) => Positive(bodies[r][idx].mass)
    /\ \A n \in DOMAIN sent[r] : \A m \in DOMAIN sent[r][n] :
         sent[r][n][m].mass = generated[slice_start[r] + m].mass

\* the masses are those of the generated store
MassesKept ==
  (\E r \in Ranks : HoldsBodies(r)) => MassesOf(StoreAfter(0))

Finite(a) == a.t = "num"

\* C13: every result of the force kernel, as the force loop calls it (the
\* body at the loop index against every other body of the store), is finite,
\* also with softening_length = 0 and with the two bodies at one position.
C13_ForceFinite ==
  \A r \in Ranks : pc[r] = "force" =>
    \A j \in DOMAIN bodies[r] : j # i[r] =>
      LET a == calculate_newton_gravity_acceleration(
                 bodies[r][i[r]], bodies[r][j], simulation_softening_length_squared)
      IN  Finite(a[1]) /\ Finite(a[2])

\* the process of rank r has ended with a failure status: it returned
\* EXIT_FAILURE from main, or abort() ended it
ExitedWithFailure(r) ==
  \/ pc[r] = "aborted"
  \/ pc[r] = "exited" /\ exit_status[r] = EXIT_FAILURE

\* the process of rank r has returned EXIT_SUCCESS from main
ExitedWithSuccess(r) == pc[r] = "exited" /\ exit_status[r] = EXIT_SUCCESS

OtherBodies(store, idx) ==
  SelectSeq([n \in 1..body_count |-> n - 1],
            LAMBDA j : j # idx /\ j \in DOMAIN store)

\* the float sum, left to right from 0, of the kernel's contributions to
\* body idx of the bodies whose indices are listed in js
RECURSIVE KernelSum(_, _, _)
KernelSum(store, idx, js) ==
  IF js = <<>> THEN <<Zero, Zero>>
  ELSE LET before == KernelSum(store, idx, SubSeq(js, 1, Len(js) - 1))
           a == calculate_newton_gravity_acceleration(
                  store[idx], store[js[Len(js)]], simulation_softening_length_squared)
       IN  <<fadd(before[1], a[1]), fadd(before[2], a[2])>>

\* the owned bodies of rank r whose acceleration of the current step is
\* stored, while the store still is the one the step started from
AccelerationStored(r) ==
  IF pc[r] = "force" THEN slice_start[r]..(i[r] - 1)
  ELSE IF pc[r] \in {"integrate", "allgather_enter", "allgather"}
       THEN slice_start[r]..(slice_start[r] + bodies_per_process[r] - 1)
       ELSE {}

\* every acceleration stored in the current step is the sum over the other
\* bodies
SummedOverOthers ==
  \A r \in Ranks : \A idx \in AccelerationStored(r) :
    LET js == OtherBodies(bodies[r], idx)
        total == KernelSum(bodies[r], idx, js)
    IN  /\ Len(js) = body_count - 1
        /\ \A n \in 1..Len(js) : js[n] # idx
        /\ \A n, m \in 1..Len(js) : n # m => js[n] # js[m]
        /\ bodies[r][idx].ax = total[1]
        /\ bodies[r][idx].ay = total[2]

\* C15: in every step, the acceleration stored for an owned body i is the
\* sum of the kernel's contributions of the body_count - 1 bodies j # i of
\* the whole store of the rank, each taken once, in index order; body i is
\* not among them.
C15_SumOverOthers == []SummedOverOthers

\* a rank other than the leader has stored, for a body it owns, a finite
\* acceleration that is not zero, summed over a store of four bodies
C15_Witness ==
  \E r \in Ranks :
    /\ r # 0 /\ body_count = 4 /\ pc[r] = "integrate"
    /\ \E idx \in AccelerationStored(r) :
         Finite(bodies[r][idx].ax) /\ bodies[r][idx].ax # Zero

\* body b after one application of the integrator of the specification:
\* the velocity first, then the position with the new velocity
Integrated(b) ==
  body_t(fadd(b.x, fmul(fadd(b.vx, fmul(b.ax, delta_time)), delta_time)),
         fadd(b.y, fmul(fadd(b.vy, fmul(b.ay, delta_time)), delta_time)),
         b.ax, b.ay,
         fadd(b.vx, fmul(b.ax, delta_time)),
         fadd(b.vy, fmul(b.ay, delta_time)),
         b.mass)

\* the entries of the slice buffer of rank r the integrator has been applied
\* to in the current step
IntegratorApplied(r) ==
  IF pc[r] = "integrate" THEN 0..(i[r] - 1)
  ELSE IF pc[r] \in {"allgather_enter", "allgather"}
       THEN 0..(bodies_per_process[r] - 1)
       ELSE {}

\* C16: once the force phase of a step is over, every entry of the slice
\* buffer is the owned body with its acceleration of the step stored, and it
\* is that body integrated exactly once from the moment the integration loop
\* has passed it until the exchange returns: velocity + a * delta_time, then
\* position + new velocity * delta_time, with ax, ay and mass as they were.
C16_IntegratedOnce ==
  \A r \in Ranks :
    pc[r] \in {"integrate", "allgather_enter", "allgather"} =>
      \A m \in 0..(bodies_per_process[r] - 1) :
        LET stored == bodies[r][slice_start[r] + m]
        IN  /\ slice_start[r] + m \in AccelerationStored(r)
            /\ local_bodies[r][m] =
                 IF m \in IntegratorApplied(r) THEN Integrated(stored) ELSE stored

\* a rank other than the leader has integrated its slice: a body of it has
\* moved and changed its velocity
C16_Witness ==
  \E r \in Ranks :
    /\ r # 0 /\ pc[r] = "allgather_enter"
    /\ \E m \in IntegratorApplied(r) :
         LET stored == bodies[r][slice_start[r] + m]
         IN  /\ Finite(local_bodies[r][m].x) /\ Finite(local_bodies[r][m].vx)
             /\ local_bodies[r][m].vx # stored.vx
             /\ local_bodies[r][m].x # stored.x

\* no rank but the leader has a trace buffer, a pointer to one or a cursor
\* into one
NoTraceOffLeader ==
  \A r \in Ranks : r # 0 =>
    /\ accelerations[r] = <<>>
    /\ "accelerations" \notin ptrs[r] /\ "accelerations" \notin heap[r]
    /\ next_acceleration[r] = 0

\* a step that changes a trace buffer is the allocation by the leader, or
\* the leader's recording of step k: the leader is back from the exchange of
\* step k, to which every rank has contributed, it writes the entries of
\* step k only, and it is at the head of the loop, before the force phase of
\* step k + 1, when the writes are done
TraceWrittenInRecord ==
  accelerations' # accelerations =>
    /\ \A r \in Ranks : r # 0 => accelerations'[r] = accelerations[r]
    /\ \/ /\ pc[0] = "assert_div" /\ pc'[0] = "bcast"
          /\ accelerations[0] = <<>>
       \/ /\ pc[0] = "record" /\ pc'[0] = "loop" /\ k'[0] = k[0] + 1
          /\ \A q \in Ranks : Len(sent[q]) >= k[0] + 1
          /\ DOMAIN accelerations'[0] = DOMAIN accelerations[0]
          /\ \A n \in DOMAIN accelerations[0] :
               accelerations'[0][n] # accelerations[0][n] =>
                 /\ 2 * body_count * k[0] <= n
                 /\ n < 2 * body_count * (k[0] + 1)

\* C17: only the leader allocates and writes a trace buffer; each write for
\* step k is made after the leader has returned from the exchange of step k
\* and before it starts the force computation of step k + 1; no other rank
\* has a trace buffer at any time.
C17_TraceByLeader ==
  []NoTraceOffLeader /\ [][TraceWrittenInRecord]_vars

\* the leader has recorded the first step and is in the force phase of the
\* second, next to another rank
C17_Witness ==
  /\ w_size > 1 /\ pc[0] = "force" /\ k[0] = 1
  /\ next_acceleration[0] = 2 * body_count
  /\ \E n \in DOMAIN accelerations[0] : accelerations[0][n] \notin {Indet, Zero}

\* what rank r has printed so far, in the order of the calls of printf: the
\* lines the output channel has and the lines the stdio buffer still holds
Printed(r) == output[r] \o stdout_buf[r]

\* the header and the bodies of a store, as the specification lays the dump
\* out
DumpOf(store) ==
  <<<<"header", body_count, time_period, delta_time>>>> \o
  [n \in 1..body_count |-> <<"body", store[n - 1]>>]

\* the lines of the whole trace the leader holds
ExpectedTraceLines ==
  [n \in 1..(iterations * body_count) |->
     <<"acc", accelerations[0][2 * (n - 1)], accelerations[0][2 * (n - 1) + 1]>>]

\* the exchange of the last step has completed on the leader
LastExchangeDone ==
  /\ k[0] = iterations
  /\ \A q \in Ranks : Len(sent[q]) = iterations

\* the leader has printed the lines of dump, and what C18 says comes after
OutputOrder(dump) ==
  /\ pc[0] = "aborted" => Printed(0) \in {<<>>, dump}
  /\ pc[0] \notin {"start", "aborted"} =>
       /\ SubSeq(Printed(0), 1, 1 + body_count) = dump
       /\ bcast_msg = <<>> => Printed(0) = dump
       /\ pc[0] \notin {"end", "exited"} => Printed(0) = dump
       /\ pc[0] \in {"end", "exited"} =>
            /\ LastExchangeDone
            /\ Printed(0) = dump \o ExpectedTraceLines

\* what has been printed is in the order of C18
OutputOrdered ==
  /\ \A r \in Ranks : r # 0 => Printed(r) = <<>>
  /\ argc < 6 => Printed(0) = <<>>
  /\ bcast_msg # <<>> => pc[0] \notin {"start", "assert_div", "aborted"}
  /\ pc[0] = "exited" => stdout_buf[0] = <<>>
  /\ (argc >= 6 /\ pc[0] # "start") => OutputOrder(DumpOf(StoreAfter(0)))

\* C18: the leader prints the header and the dump of the generated state,
\* the state before any step, before the broadcast; it prints no trace line
\* until the exchange of the last step has completed, and then all the
\* iterations * body_count lines of the trace, after the dump; the output
\* channel receives the lines in that order; no other rank prints, at any
\* time.
C18_OutputOrder == []OutputOrdered

\* the leader of several ranks has exited with the dump and a trace of two
\* steps on the output channel
C18_Witness ==
  /\ w_size > 1 /\ argc >= 6 /\ iterations = 2 /\ pc[0] = "exited"
  /\ Len(output[0]) = 1 + body_count + 2 * body_count
  /\ output[0][Len(output[0])][1] = "acc"

(* the run with a single worker: the step loop of main as rank 0 of 1 runs it *)

\* the force loop over the whole store, in place, from body idx on
RECURSIVE SequentialForce(_, _)
SequentialForce(store, idx) ==
  IF idx >= body_count THEN store
  ELSE SequentialForce(
         [store EXCEPT ![idx] = with_acceleration(store, idx, body_count,
                                  simulation_softening_length_squared)],
         idx + 1)

\* the integration loop over the slice buffer, here the whole store
RECURSIVE SequentialIntegrate(_, _)
SequentialIntegrate(slice, idx) ==
  IF idx >= body_count THEN slice
  ELSE SequentialIntegrate([slice EXCEPT ![idx] = integrate(@, delta_time)], idx + 1)

\* one step: the exchange among one rank copies the slice buffer to the store
SequentialStep(store) == SequentialIntegrate(SequentialForce(store, 0), 0)

\* the pairs (ax, ay) of a store, body by body, as the leader records them
AccelerationsOf(store) ==
  [n \in 1..(2 * body_count) |->
     IF n % 2 = 1 THEN store[(n - 1) \div 2].ax ELSE store[(n - 1) \div 2].ay]

\* a run, one step further: its store is next
Extended(run, next) ==
  [store |-> next, trace |-> run.trace \o AccelerationsOf(next)]

\* a run after one more step of the loop
Advanced(run) == Extended(run, SequentialStep(run.store))

\* the store and the trace of the single worker after n steps
RECURSIVE SequentialRun(_)
SequentialRun(n) ==
  IF n = 0 THEN [store |-> Tabulate(Generated, 0, body_count - 1), trace |-> <<>>]
  ELSE Advanced(SequentialRun(n - 1))

\* every rank back from its n-th exchange holds the store of run, and what
\* the leader has recorded by then is the trace of run
SameAs(run, n) ==
  \A r \in Ranks : (Synced(r) /\ Exchanges(r) = n) =>
    /\ bodies[r] = run.store
    /\ r = 0 =>
         \A m \in 0..(next_acceleration[0] - 1) : accelerations[0][m] = run.trace[m + 1]

\* the ranks back from an exchange hold what the single worker holds
SameAsSequential ==
  \A n \in {Exchanges(r) : r \in {q \in Ranks : Synced(q)}} :
    SameAs(SequentialRun(n), n)

\* C19: whatever the number of ranks dividing body_count, a rank holds after
\* every step the store the single worker holds after that step, and the
\* leader records the trace the single worker records.
C19_WorkerCountIndependent == []SameAsSequential

\* with two ranks, the leader has recorded two steps and holds a store that
\* has moved in both
C19_Witness ==
  /\ w_size = 2 /\ pc[0] = "loop" /\ k[0] = 2
  /\ next_acceleration[0] = 4 * body_count
  /\ bodies[0] # SequentialRun(1).store
  /\ bodies[0] # SequentialRun(0).store

\* body idx of the store as step n (from 0) starts: what the broadcast
\* delivered, or what the exchange of the step before delivered
StartOfStep(n, idx) == IF n = 0 THEN bcast_msg[1][idx] ELSE Exchanged(n - 1, idx)

\* no field of the body is uninitialised memory
Initialised(b) ==
  /\ b.x # Indet /\ b.y # Indet /\ b.ax # Indet /\ b.ay # Indet
  /\ b.vx # Indet /\ b.vy # Indet /\ b.mass # Indet

\* rank r is in a step: past the head of the loop, not yet back from the
\* exchange
InStep(r) == pc[r] \in {"force", "integrate", "allgather_enter", "allgather"}

\* C20: while a rank is in step k, every body of its store has the position,
\* velocity and mass the step started with, and so has what the force sums
\* read; only ax and ay of the owned bodies whose acceleration is stored
\* differ from the start of the step.  Every entry of every slice exchanged
\* in step k is the body of the start of step k, with an acceleration of this
\* step, integrated once: none is stale, none uninitialised.
C20_StartOfStepReads ==
  \A r \in Ranks :
    /\ InStep(r) =>
         \A idx \in DOMAIN bodies[r] :
           LET start == StartOfStep(k[r], idx)
               body == bodies[r][idx]
           IN  /\ [body EXCEPT !.ax = start.ax, !.ay = start.ay] = start
               /\ body # start => (idx \in AccelerationStored(r) /\ Owns(r, idx))
    /\ \A n \in DOMAIN sent[r] :
         /\ DOMAIN sent[r][n] = 0..(bodies_per_process[r] - 1)
         /\ \A m \in DOMAIN sent[r][n] :
              LET start == StartOfStep(n - 1, slice_start[r] + m)
                  entry == sent[r][n][m]
              IN  /\ Initialised(entry)
                  /\ entry = Integrated([start EXCEPT !.ax = entry.ax,
                                                      !.ay = entry.ay])

\* a rank other than the leader is in the force phase of its second step: it
\* has stored an acceleration that differs from the one the step started
\* with, and the slice it sent in the first step has moved
C20_Witness ==
  \E r \in Ranks :
    /\ r # 0 /\ pc[r] = "force" /\ k[r] = 1
    /\ \E idx \in AccelerationStored(r) :
         bodies[r][idx].ax # StartOfStep(1, idx).ax
    /\ \E m \in DOMAIN sent[r][1] :
         sent[r][1][m].x # StartOfStep(0, slice_start[r] + m).x
====
